---- MODULE Spec2Model ----
(***************************************************************************)
(* The speech-submission pipeline of the gamified public speaking app:     *)
(* the /api/upload-audio handler (services/routes.py), the statistics      *)
(* read-modify-write (managers/auth_manager.py), level completion and      *)
(* unlocking (managers/game_manager.py), transcription and analysis        *)
(* outcomes, over the MySQL tables of managers/database_manager.py.        *)
(*                                                                         *)
(* Every DatabaseManager call is one committed SQL statement, so each      *)
(* statement is one atomic step; the Flask worker threads interleave       *)
(* between statements.                                                     *)
(***************************************************************************)
EXTENDS Integers, Sequences, FiniteSets, TLC

\* ---------------------------------------------------------------- bounds

\* Requests a thread serves one after the other (SpecSeq).
MaxRequests == 3

\* The filler and weak-word counts of the analyses scored (SpecScore) are in
\* 0..MaxCount.
MaxCount == 12

\* Stored FLOAT averages keep FloatScale units per 1.0 (the finite precision
\* of the avg_* FLOAT columns); values are rounded to the nearest unit.
FloatScale == 10

\* ------------------------------------------------------ program constants

PassingScore == 60
MinTranscriptLen == 5
NumLevels == 5
FillerPenaltyCap == 20
WeakWordsPenaltyCap == 15
DefaultScore == 50
MinWavSize == 100
WavHeaderLen == 44
MaxAttempts == 60

\* Flask worker threads serving requests concurrently. The threads are
\* interchangeable: the first request is t1's.
Threads == {"t1", "t2"}

\* current_user of the modelled requests, and another registered user whose
\* rows are in the tables from the start.
CurrentUser == "u1"
OtherUser == "u2"

\* Python's None where an integer is expected (response_id, level id).
None == -1

\* ------------------------------------------------------------ ai_feedback

\* The keys of an analysis that the pipeline reads.
ScoreKeys == {"repetition_score", "filler_count", "weak_words_count",
              "flow_score", "confidence_score"}

\* The keys of the schema analyze_speech asks the model for (lines 25-39) and
\* _fallback_analysis returns.
SchemaKeys == ScoreKeys \union {"summary", "detailed_feedback", "strengths",
                                "improvement_areas"}

\* An ai_feedback value: what json.loads gave (an object with some of the
\* keys, or a value of another shape such as a list) or the fallback.
\* non_numeric holds the keys whose value is not a number (a string, null).
Analysis(shape, keys, rep, fil, weak, flow, conf) ==
    [shape |-> shape, keys |-> keys, non_numeric |-> {},
     repetition_score |-> rep, filler_count |-> fil,
     weak_words_count |-> weak, flow_score |-> flow,
     confidence_score |-> conf]

\* The same value with strings for the values of the given keys.
WithNonNumeric(a, keys) == [a EXCEPT !.non_numeric = keys]

\* AIManager._fallback_analysis
FallbackAnalysis == Analysis("object", SchemaKeys, 75, 0, 0, 70, 70)

\* A well-formed analysis of a speech with four fillers (score 57).
HesitantAnalysis == Analysis("object", SchemaKeys, 70, 4, 0, 65, 60)

\* A JSON object the model returned without the two count keys.
PartialAnalysis ==
    Analysis("object", {"repetition_score", "flow_score", "confidence_score"},
             80, 0, 0, 80, 80)

\* A JSON value that is not an object (a list).
ListAnalysis == Analysis("list", {}, 0, 0, 0, 0, 0)

\* No analysis (an error response carries none).
NoAnalysis == Analysis("none", {}, 0, 0, 0, 0, 0)

\* analyze_speech without its except branches: no analysis comes back when
\* the call raises or the text does not parse.
AnalyzeSpeechNoFallback(response) == response.value

\* AIManager.analyze_speech: the parsed value, or the fallback when the call
\* raises or the text does not parse.
AnalyzeSpeech(response) ==
    IF response.kind = "json" THEN response.value ELSE FallbackAnalysis

\* What analyze_speech logs (lines 57-62).
AnalyzeSpeechLog(response) ==
    CASE response.kind = "raise" -> <<"AI analysis error">>
      [] response.kind = "text" -> <<"JSON parsing error">>
      [] OTHER -> <<>>

\* dict.get(key, 0)
Get(a, key) == IF key \in a.keys THEN a[key] ELSE 0

Min(a, b) == IF a < b THEN a ELSE b

\* round(n / d) for n >= 0, d > 0 (no tie occurs for d = 3; ties go up).
RoundDiv(n, d) == (2 * n + d) \div (2 * d)

\* Lines 143-154 raise: .get on a value that is not a dict (AttributeError),
\* or +, / and min() on a value that is not a number (TypeError).
ScoreRaises(a) ==
    \/ a.shape # "object"
    \/ a.non_numeric \cap a.keys \cap ScoreKeys # {}

\* calculate_level_score with 0 returned at line 158.
CalculateLevelScoreDefaultZero(a) ==
    IF ScoreRaises(a) THEN 0
    ELSE LET filler_penalty == Min(Get(a, "filler_count") * 2, FillerPenaltyCap)
             weak_words_penalty ==
                 Min(Get(a, "weak_words_count") * 3, WeakWordsPenaltyCap)
             sum3 == Get(a, "repetition_score") + Get(a, "flow_score")
                       + Get(a, "confidence_score")
             n3 == sum3 - 3 * (filler_penalty + weak_words_penalty)
         IN  IF n3 <= 0 THEN 0 ELSE RoundDiv(n3, 3)

\* calculate_level_score with int() for round() at line 154.
CalculateLevelScoreTruncated(a) ==
    IF ScoreRaises(a) THEN DefaultScore
    ELSE LET filler_penalty == Min(Get(a, "filler_count") * 2, FillerPenaltyCap)
             weak_words_penalty ==
                 Min(Get(a, "weak_words_count") * 3, WeakWordsPenaltyCap)
             sum3 == Get(a, "repetition_score") + Get(a, "flow_score")
                       + Get(a, "confidence_score")
             n3 == sum3 - 3 * (filler_penalty + weak_words_penalty)
         IN  IF n3 <= 0 THEN 0 ELSE n3 \div 3

\* calculate_level_score without the min() of lines 148-149.
CalculateLevelScoreUncapped(a) ==
    IF ScoreRaises(a) THEN DefaultScore
    ELSE LET filler_penalty == Get(a, "filler_count") * 2
             weak_words_penalty == Get(a, "weak_words_count") * 3
             sum3 == Get(a, "repetition_score") + Get(a, "flow_score")
                       + Get(a, "confidence_score")
             n3 == sum3 - 3 * (filler_penalty + weak_words_penalty)
         IN  IF n3 <= 0 THEN 0 ELSE RoundDiv(n3, 3)

\* GameManager.calculate_level_score. The except branch returns the default
\* when the computation raises; a missing key is read as 0.
CalculateLevelScore(a) ==
    IF ScoreRaises(a) THEN DefaultScore
    ELSE LET filler_penalty == Min(Get(a, "filler_count") * 2, FillerPenaltyCap)
             weak_words_penalty ==
                 Min(Get(a, "weak_words_count") * 3, WeakWordsPenaltyCap)
             sum3 == Get(a, "repetition_score") + Get(a, "flow_score")
                       + Get(a, "confidence_score")
             \* three times (total_score - penalties)
             n3 == sum3 - 3 * (filler_penalty + weak_words_penalty)
         IN  IF n3 <= 0 THEN 0 ELSE RoundDiv(n3, 3)

\* update_user_statistics subscripts speech_analysis['filler_count'],
\* ['repetition_score'] and ['flow_score']: KeyError or TypeError otherwise.
StatisticsKeysPresent(a) ==
    /\ a.shape = "object"
    /\ {"filler_count", "repetition_score", "flow_score"} \subseteq a.keys
    /\ {"filler_count", "repetition_score", "flow_score"}
          \cap a.non_numeric = {}

\* ---------------------------------------------------------- transcription

\* Python's None for the transcription text and for the error message.
NoText == <<>>
NoError == "<None>"

\* Texts a completed transcription job can carry (sequences of characters).
TextEmpty == <<>>
TextBlank == <<" ", " ">>
TextShort == <<" ", "h", "i">>
TextSpeech == <<" ", "u", "m", " ", "s", "o", " ">>
ProviderTexts == {TextEmpty, TextBlank, TextShort, TextSpeech}

RECURSIVE LStrip(_)
LStrip(s) == IF s # <<>> /\ Head(s) = " " THEN LStrip(Tail(s)) ELSE s

RECURSIVE RStrip(_)
RStrip(s) ==
    IF s # <<>> /\ s[Len(s)] = " " THEN RStrip(SubSeq(s, 1, Len(s) - 1)) ELSE s

\* str.strip()
Strip(s) == RStrip(LStrip(s))

\* The audio file on disk after audio_file.save: whether it exists, its size
\* in bytes, and whether bytes 0-3 are RIFF and bytes 8-11 are WAVE.
AudioFile(exists, size, riff, wave) ==
    [exists |-> exists, size |-> size, riff |-> riff, wave |-> wave]

Files ==
    {AudioFile(FALSE, 0, FALSE, FALSE), AudioFile(TRUE, 0, FALSE, FALSE),
     AudioFile(TRUE, 60, TRUE, TRUE), AudioFile(TRUE, 200, TRUE, TRUE),
     AudioFile(TRUE, 200, FALSE, TRUE), AudioFile(TRUE, 200, TRUE, FALSE)}

\* content_type as upload_audio derives it from the file name and MIME type.
ContentTypes == {"audio/wav", "audio/mpeg", "audio/webm"}

\* The transcription provider's behaviour during one job: the upload and the
\* job-submit answers, how polling ends, and the text of a completed job.
Providers ==
    [upload : {"ok", "fail"}, submit : {"ok", "fail"},
     poll : {"completed", "error", "status_fail", "timeout"},
     text : ProviderTexts]

\* TranscriptionManager._upload_audio, lines 57-73: the MIME type sent.
MimeType(content_type) ==
    CASE content_type = "audio/wav" -> "audio/wav"
      [] content_type = "audio/mpeg" -> "audio/mpeg"
      [] OTHER -> "audio/wav"

\* TranscriptionManager._upload_audio: TRUE when an upload URL is returned.
UploadAudio(file, content_type, provider) ==
    IF /\ MimeType(content_type) = "audio/wav"
       /\ file.size >= WavHeaderLen
       /\ (~file.riff \/ ~file.wave)
    THEN FALSE
    ELSE provider.upload = "ok"

\* The logs of an _upload_audio call that returned at the header check.
HeaderWarningLogs ==
    {<<"File doesn't have proper WAV RIFF header">>,
     <<"File doesn't have proper WAV format identifier">>}

\* What _upload_audio logs: the header warnings of lines 79 and 84, the
\* upload errors of lines 102 and 109.
UploadAudioLog(file, content_type, provider) ==
    IF MimeType(content_type) = "audio/wav" /\ file.size >= WavHeaderLen
          /\ ~file.riff
    THEN <<"File doesn't have proper WAV RIFF header">>
    ELSE IF MimeType(content_type) = "audio/wav" /\ file.size >= WavHeaderLen
               /\ ~file.wave
    THEN <<"File doesn't have proper WAV format identifier">>
    ELSE IF provider.upload # "ok" THEN <<"Upload failed">>
    ELSE <<>>

\* TranscriptionManager._request_transcription: TRUE when a job id is returned.
RequestTranscription(provider) == provider.submit = "ok"

\* TranscriptionManager._wait_for_completion: the stripped text, or None on
\* an empty text, a provider error, a failed status check or a timeout.
WaitForCompletion(provider) ==
    IF provider.poll = "completed" /\ Strip(provider.text) # <<>>
    THEN Strip(provider.text)
    ELSE NoText

\* What _request_transcription and _wait_for_completion log (lines 140, 171,
\* 181, 187, 193).
RequestTranscriptionLog(provider) ==
    IF provider.submit = "ok" THEN <<>> ELSE <<"Transcription request failed">>

WaitForCompletionLog(provider) ==
    CASE provider.poll = "error" -> <<"Transcription error">>
      [] provider.poll = "status_fail" -> <<"Status check failed">>
      [] provider.poll = "timeout" -> <<"Transcription timeout">>
      [] provider.poll = "completed" /\ Strip(provider.text) = <<>> ->
             <<"Transcription completed but text is empty">>
      [] OTHER -> <<>>

TranscribeResult(transcription, error) ==
    [transcription |-> transcription, error |-> error]

\* TranscriptionManager.transcribe_audio
TranscribeAudio(file, content_type, provider) ==
    IF ~file.exists THEN TranscribeResult(NoText, "Audio file not found")
    ELSE IF file.size = 0 THEN TranscribeResult(NoText, "Audio file is empty")
    ELSE IF content_type = "audio/wav" /\ file.size < MinWavSize
    THEN TranscribeResult(NoText, "WAV file is too small to contain valid audio")
    ELSE IF ~UploadAudio(file, content_type, provider)
    THEN TranscribeResult(NoText, "Failed to upload audio")
    ELSE IF ~RequestTranscription(provider)
    THEN TranscribeResult(NoText, "Failed to start transcription")
    ELSE TranscribeResult(WaitForCompletion(provider), NoError)

\* The warnings and errors transcribe_audio's calls log, in order.
TranscribeAudioLog(file, content_type, provider) ==
    IF ~file.exists \/ file.size = 0
          \/ (content_type = "audio/wav" /\ file.size < MinWavSize)
    THEN <<>>
    ELSE IF ~UploadAudio(file, content_type, provider)
    THEN UploadAudioLog(file, content_type, provider)
    ELSE IF ~RequestTranscription(provider)
    THEN RequestTranscriptionLog(provider)
    ELSE WaitForCompletionLog(provider)

\* No transcription was attempted (the request failed before line 143).
NotTranscribed == TranscribeResult(NoText, "<not transcribed>")

\* ------------------------------------------------- upload_audio, lines 98-154

\* The JSON body and status of a response of /api/upload-audio.
Response(status, success, error, transcription, analysis, id) ==
    [status |-> status, success |-> success, error |-> error,
     transcription |-> transcription, analysis |-> analysis,
     response_id |-> id]

ErrorResponse(status, error) ==
    Response(status, FALSE, error, NoText, NoAnalysis, None)

\* jsonify({'success': True, ...}), lines 177-182
SuccessResponse(transcription, analysis, id) ==
    Response(200, TRUE, "", transcription, analysis, id)

NoResponse == Response(0, FALSE, "", NoText, NoAnalysis, None)

\* Lines 144-149 without the check of lines 148-149.
TranscriptionVerdictErrorOnly(result) ==
    IF result.error # NoError /\ result.error # "" THEN "error500"
    ELSE "proceed"

\* Lines 144-149 with line 148 reading "transcription and len(...) < 5".
TranscriptionVerdictShortOnly(result) ==
    IF result.error # NoError /\ result.error # "" THEN "error500"
    ELSE IF result.transcription # NoText
            /\ Len(Strip(result.transcription)) < MinTranscriptLen
    THEN "error400"
    ELSE "proceed"

\* Lines 144-149: what the handler does with transcribe_audio's result.
TranscriptionVerdict(result) ==
    IF result.error # NoError /\ result.error # ""
    THEN "error500"
    ELSE IF result.transcription = NoText
            \/ Len(Strip(result.transcription)) < MinTranscriptLen
    THEN "error400"
    ELSE "proceed"

\* The multipart request: no audio part, an audio part with an empty file
\* name, or a file.
AudioParts == {"missing", "noname", "file"}

\* Lines 98-149: the transcription result and the error response, or
\* NoResponse when the handler goes on to the analysis; what the
\* transcription logged, and whether audio_file.save left a file on disk.
UploadStage(part, file, content_type, provider) ==
    IF part = "missing"
    THEN [tr |-> NotTranscribed, log |-> <<>>, saved |-> FALSE,
          resp |-> ErrorResponse(400, "No audio file provided")]
    ELSE IF part = "noname"
    THEN [tr |-> NotTranscribed, log |-> <<>>, saved |-> FALSE,
          resp |-> ErrorResponse(400, "No file selected")]
    ELSE IF ~file.exists \/ file.size = 0
    THEN [tr |-> NotTranscribed, log |-> <<>>, saved |-> file.exists,
          resp |-> ErrorResponse(500, "Failed to save audio file")]
    ELSE LET result == TranscribeAudio(file, content_type, provider)
             verdict == TranscriptionVerdict(result)
         IN  [tr |-> result,
              log |-> TranscribeAudioLog(file, content_type, provider),
              saved |-> TRUE,
              resp |-> CASE verdict = "error500" ->
                              ErrorResponse(500, "Transcription failed")
                         [] verdict = "error400" ->
                              ErrorResponse(400, "Could not transcribe audio or speech too short")
                         [] OTHER -> NoResponse]

\* Every outcome of lines 98-149 over the modelled requests, files and
\* provider behaviours.
UploadOutcomes ==
    {UploadStage(part, file, ct, provider) :
        part \in AudioParts, file \in Files, ct \in ContentTypes,
        provider \in Providers}

\* The form fields the pipeline uses after the transcription: level_number
\* (has_level is FALSE when the field is absent or not an integer), whether
\* task_id is NULL or the id of a row of tasks, and is_quick_task.
Form(has_level, level_number, task_valid, is_quick_task) ==
    [has_level |-> has_level, level_number |-> level_number,
     task_valid |-> task_valid, is_quick_task |-> is_quick_task]

\* What the generative model call does during a submission.
ModelRaises == [kind |-> "raise", value |-> NoAnalysis]
ModelAnswers(analysis) == [kind |-> "json", value |-> analysis]
ModelText == [kind |-> "text", value |-> NoAnalysis]

\* The model responses analyze_speech can meet: an exception, a text that is
\* no JSON, and JSON of the schema, of an object missing keys, of a list.
ModelResponses ==
    {ModelRaises, ModelText, ModelAnswers(HesitantAnalysis),
     ModelAnswers(PartialAnalysis), ModelAnswers(ListAnalysis)}

\* The text of a model response, a sequence of characters: the JSON text of
\* an object or of a list, or prose, behind an opening fence (bare, tagged
\* json or tagged otherwise) or none, before a closing fence or none, the
\* fences on lines of their own or not, the whole padded with blanks or not.
\* The grave accent (U+0060), three of which make a fence.
Grave == "grave"
Fence == <<Grave, Grave, Grave>>
JsonTag == <<"j", "s", "o", "n">>
OtherTag == <<"j", "s">>
ObjectText == <<"{", "a", "}">>
ListText == <<"[", "a", "]">>
ProseText == <<"o", "k">>
Whitespace == {" ", "\n"}

ResponseText(lead, trail, lines, padded, body) ==
    LET pad == IF padded THEN <<" ", "\n">> ELSE <<>>
        newline == IF lines THEN <<"\n">> ELSE <<>>
        opening == CASE lead = "bare" -> Fence \o newline
                     [] lead = "json" -> Fence \o JsonTag \o newline
                     [] lead = "other" -> Fence \o OtherTag \o newline
                     [] OTHER -> <<>>
        closing == IF trail THEN newline \o Fence ELSE <<>>
        payload == CASE body = "object" -> ObjectText
                     [] body = "list" -> ListText
                     [] OTHER -> ProseText
    IN  pad \o opening \o payload \o closing \o pad

RECURSIVE LStripWhitespace(_)
LStripWhitespace(s) ==
    IF s # <<>> /\ Head(s) \in Whitespace THEN LStripWhitespace(Tail(s)) ELSE s

RECURSIVE RStripWhitespace(_)
RStripWhitespace(s) ==
    IF s # <<>> /\ s[Len(s)] \in Whitespace
    THEN RStripWhitespace(SubSeq(s, 1, Len(s) - 1))
    ELSE s

\* str.strip() on a text with blanks and newlines
StripWhitespace(s) == RStripWhitespace(LStripWhitespace(s))

\* str.startswith
StartsWith(s, prefix) ==
    Len(s) >= Len(prefix) /\ SubSeq(s, 1, Len(prefix)) = prefix

\* s[from:-3] of Python, from counted from 0
SliceToLastThree(s, from) == SubSeq(s, from + 1, Len(s) - 3)

\* analyze_speech, lines 47-51: the text handed to json.loads.
CleanResponse(text) ==
    LET response_text == StripWhitespace(text)
    IN  IF StartsWith(response_text, Fence \o JsonTag)
        THEN SliceToLastThree(response_text, 7)
        ELSE IF StartsWith(response_text, Fence)
        THEN SliceToLastThree(response_text, 3)
        ELSE response_text

\* json.loads at line 53, as the model's response of the pipeline: the value
\* parsed (whitespace around it is accepted), or a text that is no JSON.
JsonLoads(text) ==
    IF StripWhitespace(text) = ObjectText THEN ModelAnswers(HesitantAnalysis)
    ELSE IF StripWhitespace(text) = ListText THEN ModelAnswers(ListAnalysis)
    ELSE ModelText

\* The submissions modelled, each a form and the model's answer: a level-1
\* task (analysis unavailable, hesitant, partial), a level-2 task, level
\* number 0, no level, a level that does not exist, a quick task sent with a
\* level, and a task_id that is no row of tasks.
Submissions ==
    {<<Form(TRUE, 1, TRUE, FALSE), ModelRaises>>,
     <<Form(TRUE, 1, TRUE, FALSE), ModelAnswers(HesitantAnalysis)>>,
     <<Form(TRUE, 1, TRUE, FALSE), ModelAnswers(PartialAnalysis)>>,
     <<Form(TRUE, 2, TRUE, FALSE), ModelRaises>>,
     <<Form(TRUE, 0, TRUE, FALSE), ModelRaises>>,
     <<Form(FALSE, 0, TRUE, FALSE), ModelRaises>>,
     <<Form(TRUE, NumLevels + 1, TRUE, FALSE), ModelRaises>>,
     <<Form(TRUE, 1, TRUE, TRUE), ModelRaises>>,
     <<Form(TRUE, 1, FALSE, FALSE), ModelRaises>>}

NoForm == Form(FALSE, 0, TRUE, FALSE)

\* ------------------------------------------------------------------ tables

VARIABLES
    speech_responses,   \* rows of speech_responses in id order (id = index):
                        \* the user_id, transcription, ai_feedback columns
    user_progress,      \* rows of user_progress, in id order
    user_statistics,    \* rows of user_statistics, in id order
    pc,                 \* where each thread's upload_audio call stands
    form,               \* the request's form fields
    tr,                 \* (transcription, error) of transcribe_audio
    ai_feedback,        \* the analysis of the request
    current_stats,      \* update_user_statistics: the row it read (until
                        \* it returns)
    existing_progress,  \* complete_level: whether it found a progress row
                        \* (until it returns)
    response_id,        \* what save_speech_response returned
    stats_ret,          \* what update_user_statistics returned
    level_ret,          \* what complete_level returned
    resp,               \* the response sent
    db_writes,          \* INSERT and UPDATE statements run by the request
    accepted,           \* requests accepted so far
    observed,           \* the analyses update_user_statistics applied
    calls,              \* per level, the complete_level calls that returned:
                        \* how many (up to 2), the result and the score of
                        \* the last, the score of the one before
    log,                \* what the transcription and the analysis of the
                        \* request logged (warnings and errors)
    file_saved,         \* whether the request's audio file is on disk
    scoring,            \* a calculate_level_score call: the argument and the
                        \* value returned
    polling,            \* a _wait_for_completion call: the loop's state
    job,                \* a transcribe_audio call: its arguments, where it
                        \* stands, the remote calls made, the value returned
    parsing             \* an analyze_speech call: the model's response text
                        \* and what was returned for it

tables == <<speech_responses, user_progress, user_statistics>>
\* No calculate_level_score call and no _wait_for_completion call is modelled
\* on its own.
NoScoring == [analysis |-> NoAnalysis, score |-> None]
NotPolling ==
    [state |-> "idle", attempts |-> 0, checks |-> 0, result |-> NoText,
     log |-> <<>>]

\* No transcribe_audio call and no analyze_speech call is modelled on its own.
NoJob ==
    [file |-> AudioFile(FALSE, 0, FALSE, FALSE), content_type |-> "audio/wav",
     provider |-> [upload |-> "ok", submit |-> "ok", poll |-> "completed",
                   text |-> TextEmpty],
     state |-> "idle", uploads |-> 0, submits |-> 0, audio_url |-> FALSE,
     transcript_id |-> FALSE, polled |-> FALSE, result |-> NotTranscribed]
NoParsing ==
    [lead |-> "none", trail |-> FALSE, body |-> "none", padded |-> FALSE,
     lines |-> FALSE, called |-> FALSE, result |-> NoAnalysis]

\* The variables of the upload pipeline, and those of the function calls
\* modelled on their own.
pipeline == <<speech_responses, user_progress, user_statistics, pc, form, tr,
              ai_feedback, current_stats, existing_progress, response_id,
              stats_ret, level_ret, resp, db_writes, accepted, observed, calls,
              log, file_saved>>
functions == <<scoring, polling, job, parsing>>
vars == <<pipeline, functions>>

StatisticsRow(user, total, filler, repetition, flow, best) ==
    [user_id |-> user, total_speeches |-> total, avg_filler_count |-> filler,
     avg_repetition_score |-> repetition, avg_flow_score |-> flow,
     best_level_completed |-> best]

\* INSERT INTO user_statistics (user_id): the column defaults.
DefaultStatistics(user) == StatisticsRow(user, 0, 0, 0, 0, 0)

NoStatistics == DefaultStatistics("<None>")

ProgressRow(user, level_id, score) ==
    [user_id |-> user, level_id |-> level_id, is_completed |-> TRUE,
     score |-> score]

\* SELECT id FROM levels WHERE level_number = %s: insert_default_levels gives
\* levels 1..NumLevels the ids 1..NumLevels.
LevelIdOf(level_number) ==
    IF level_number \in 1..NumLevels THEN level_number ELSE None

\* SELECT * FROM user_statistics WHERE user_id = %s
StatisticsOf(rows, user) ==
    LET Test(r) == r.user_id = user IN SelectSeq(rows, Test)

\* SELECT id FROM user_progress WHERE user_id = %s AND level_id = %s
ProgressOf(rows, user, level_id) ==
    LET Test(r) == r.user_id = user /\ r.level_id = level_id
    IN  SelectSeq(rows, Test)

\* A value stored in a FLOAT column, in units of 1/FloatScale: the nearest
\* unit to n/d.
StoreFloat(n, d) == RoundDiv(n * FloatScale, d)

\* The new average taken as the mean of the old average and the new value.
NewAverageUnweighted(avg, total_speeches, value) ==
    StoreFloat(avg + value * FloatScale, FloatScale * 2)

\* update_user_statistics, lines 147-154: the new stored average from the
\* stored average, the old count and the new observation.
NewAverage(avg, total_speeches, value) ==
    StoreFloat(avg * total_speeches + value * FloatScale,
               FloatScale * (total_speeches + 1))

\* UPDATE user_statistics SET total_speeches = ..., avg_... WHERE user_id = %s
UpdateStatisticsRows(rows, user, stats, analysis) ==
    [i \in DOMAIN rows |->
        IF rows[i].user_id = user
        THEN [rows[i] EXCEPT
                !.total_speeches = stats.total_speeches + 1,
                !.avg_filler_count =
                    NewAverage(stats.avg_filler_count, stats.total_speeches,
                               analysis.filler_count),
                !.avg_repetition_score =
                    NewAverage(stats.avg_repetition_score, stats.total_speeches,
                               analysis.repetition_score),
                !.avg_flow_score =
                    NewAverage(stats.avg_flow_score, stats.total_speeches,
                               analysis.flow_score)]
        ELSE rows[i]]

\* The UPDATE marking the level completed only when the new score is not
\* below the stored one.
WriteProgressRowsResetOnLower(rows, user, level_id, score, existing) ==
    IF existing
    THEN [i \in DOMAIN rows |->
            IF rows[i].user_id = user /\ rows[i].level_id = level_id
            THEN [rows[i] EXCEPT
                    !.is_completed = (score >= rows[i].score),
                    !.score = score]
            ELSE rows[i]]
    ELSE Append(rows, [user_id |-> user, level_id |-> level_id,
                       is_completed |-> TRUE, score |-> score])

\* The UPDATE keeping the higher of the stored and the new score.
WriteProgressRowsKeepBest(rows, user, level_id, score, existing) ==
    IF existing
    THEN [i \in DOMAIN rows |->
            IF rows[i].user_id = user /\ rows[i].level_id = level_id
            THEN [rows[i] EXCEPT
                    !.is_completed = TRUE,
                    !.score = IF @ > score THEN @ ELSE score]
            ELSE rows[i]]
    ELSE Append(rows, [user_id |-> user, level_id |-> level_id,
                       is_completed |-> TRUE, score |-> score])

\* complete_level, lines 86-98: UPDATE the rows of (user, level) when a row
\* was found, INSERT a row otherwise.
WriteProgressRows(rows, user, level_id, score, existing) ==
    IF existing
    THEN [i \in DOMAIN rows |->
            IF rows[i].user_id = user /\ rows[i].level_id = level_id
            THEN [rows[i] EXCEPT !.is_completed = TRUE, !.score = score]
            ELSE rows[i]]
    ELSE Append(rows, ProgressRow(user, level_id, score))

Max(a, b) == IF a > b THEN a ELSE b

\* complete_level, lines 101-105:
\* SET best_level_completed = GREATEST(best_level_completed, %s)
UpdateBestRows(rows, user, level_number) ==
    [i \in DOMAIN rows |->
        IF rows[i].user_id = user
        THEN [rows[i] EXCEPT
                !.best_level_completed = Max(@, level_number)]
        ELSE rows[i]]

\* The condition of line 166 without the quick-task test.
ShouldCompleteLevelAlsoQuick(fields, analysis) ==
    /\ fields.has_level /\ fields.level_number # 0
    /\ CalculateLevelScore(analysis) >= PassingScore

\* upload_audio, lines 166-168: whether complete_level is called.
ShouldCompleteLevel(fields, analysis) ==
    /\ ~fields.is_quick_task
    /\ fields.has_level /\ fields.level_number # 0
    /\ CalculateLevelScore(analysis) >= PassingScore

\* The lookup made for the level itself instead of the previous level.
IsLevelUnlockedSameLevel(rows, user, level_number, raises) ==
    IF level_number = 1 THEN TRUE
    ELSE IF raises THEN FALSE
    ELSE LET level == ProgressOf(rows, user, LevelIdOf(level_number))
         IN  level # <<>> /\ level[1].is_completed

\* is_level_unlocked: level 1 without a query; otherwise the first row of
\* (user, previous level), FALSE when the query raises.
IsLevelUnlocked(rows, user, level_number, raises) ==
    IF level_number = 1 THEN TRUE
    ELSE IF raises THEN FALSE
    ELSE LET previous_level ==
                 ProgressOf(rows, user, LevelIdOf(level_number - 1))
         IN  previous_level # <<>> /\ previous_level[1].is_completed

\* ------------------------------------------------------------------- Init

\* The other user registered, spoke once and completed level 1. The current
\* user registered (create_user inserts the statistics row; the row is
\* missing when that INSERT raised) and has submitted nothing.
Idle ==
    /\ speech_responses = <<>>
    /\ user_progress = <<ProgressRow(OtherUser, 1, 90)>>
    /\ user_statistics \in
         {<<StatisticsRow(OtherUser, 1, 2 * FloatScale, 90 * FloatScale,
                          85 * FloatScale, 1),
            DefaultStatistics(CurrentUser)>>,
          <<StatisticsRow(OtherUser, 1, 2 * FloatScale, 90 * FloatScale,
                          85 * FloatScale, 1)>>}
    /\ pc = [t \in Threads |-> "idle"]
    /\ form = [t \in Threads |-> NoForm]
    /\ tr = [t \in Threads |-> NotTranscribed]
    /\ ai_feedback = [t \in Threads |-> NoAnalysis]
    /\ current_stats = [t \in Threads |-> NoStatistics]
    /\ existing_progress = [t \in Threads |-> FALSE]
    /\ response_id = [t \in Threads |-> None]
    /\ stats_ret = [t \in Threads |-> "not_called"]
    /\ level_ret = [t \in Threads |-> "not_called"]
    /\ resp = [t \in Threads |-> NoResponse]
    /\ db_writes = [t \in Threads |-> 0]
    /\ accepted = 0
    /\ observed = [n |-> 0, filler |-> 0, repetition |-> 0, flow |-> 0]
    /\ calls = [l \in 1..NumLevels |->
                  [n |-> 0, ok |-> FALSE, score |-> 0, prev |-> 0]]
    /\ log = [t \in Threads |-> <<>>]
    /\ file_saved = [t \in Threads |-> FALSE]

Init ==
    /\ Idle
    /\ scoring = NoScoring
    /\ polling = NotPolling
    /\ job = NoJob
    /\ parsing = NoParsing

\* ---------------------------------------------------------------- actions

\* upload_audio, lines 98-154: the request is read, the file saved and
\* transcribed and the transcript analysed; an error response ends the call.
Receive(t) ==
    /\ UNCHANGED functions
    /\ accepted' = accepted + 1
    /\ \E outcome \in UploadOutcomes :
         /\ tr' = [tr EXCEPT ![t] = outcome.tr]
         /\ file_saved' = [file_saved EXCEPT ![t] = outcome.saved]
         /\ IF outcome.resp # NoResponse
            THEN /\ resp' = [resp EXCEPT ![t] = outcome.resp]
                 /\ pc' = [pc EXCEPT ![t] = "done"]
                 /\ form' = [form EXCEPT ![t] = NoForm]
                 /\ ai_feedback' = [ai_feedback EXCEPT ![t] = NoAnalysis]
                 /\ log' = [log EXCEPT ![t] = outcome.log]
            ELSE /\ resp' = [resp EXCEPT ![t] = NoResponse]
                 /\ pc' = [pc EXCEPT ![t] = "save"]
                 /\ \E submission \in Submissions :
                      /\ form' = [form EXCEPT ![t] = submission[1]]
                      /\ ai_feedback' =
                           [ai_feedback EXCEPT
                              ![t] = AnalyzeSpeech(submission[2])]
                      /\ log' = [log EXCEPT
                                   ![t] = outcome.log
                                            \o AnalyzeSpeechLog(submission[2])]
    /\ current_stats' = [current_stats EXCEPT ![t] = NoStatistics]
    /\ existing_progress' = [existing_progress EXCEPT ![t] = FALSE]
    /\ response_id' = [response_id EXCEPT ![t] = None]
    /\ stats_ret' = [stats_ret EXCEPT ![t] = "not_called"]
    /\ level_ret' = [level_ret EXCEPT ![t] = "not_called"]
    /\ db_writes' = [db_writes EXCEPT ![t] = 0]
    /\ UNCHANGED <<tables, observed, calls>>

\* A thread takes its first request.
ReceiveUpload(t) ==
    /\ pc[t] = "idle"
    /\ t = "t2" => pc["t1"] # "idle"
    /\ Receive(t)

\* A thread that has responded takes another request.
ReceiveNext(t) ==
    /\ pc[t] = "done"
    /\ accepted < MaxRequests
    /\ Receive(t)

\* save_speech_response: the INSERT; a task_id that is no row of tasks
\* violates the foreign key, the except branch returns None.
SaveSpeechResponse(t) ==
    /\ UNCHANGED <<log, file_saved, functions>>
    /\ pc[t] = "save"
    /\ IF form[t].task_valid
       THEN /\ speech_responses' =
                 Append(speech_responses,
                        [user_id |-> CurrentUser,
                         transcription |-> tr[t].transcription,
                         ai_feedback |-> ai_feedback[t]])
            /\ response_id' =
                 [response_id EXCEPT ![t] = Len(speech_responses) + 1]
            /\ db_writes' = [db_writes EXCEPT ![t] = @ + 1]
       ELSE /\ response_id' = [response_id EXCEPT ![t] = None]
            /\ UNCHANGED <<speech_responses, db_writes>>
    /\ pc' = [pc EXCEPT ![t] = "stats_select"]
    /\ UNCHANGED <<user_progress, user_statistics, form, tr, ai_feedback,
                   current_stats, existing_progress, stats_ret, level_ret,
                   resp, accepted, observed, calls>>

\* get_user_statistics, lines 116-119: the first SELECT.
SelectStatistics(t) ==
    /\ UNCHANGED <<log, file_saved, functions>>
    /\ pc[t] = "stats_select"
    /\ LET stats == StatisticsOf(user_statistics, CurrentUser)
       IN  IF stats = <<>>
           THEN /\ pc' = [pc EXCEPT ![t] = "stats_insert"]
                /\ UNCHANGED current_stats
           ELSE /\ pc' = [pc EXCEPT ![t] = "stats_update"]
                /\ current_stats' = [current_stats EXCEPT ![t] = stats[1]]
    /\ UNCHANGED <<tables, form, tr, ai_feedback, existing_progress,
                   response_id, stats_ret, level_ret, resp, db_writes,
                   accepted, observed, calls>>

\* get_user_statistics, lines 123-126: INSERT the default row.
InsertStatistics(t) ==
    /\ UNCHANGED <<log, file_saved, functions>>
    /\ pc[t] = "stats_insert"
    /\ user_statistics' =
         Append(user_statistics, DefaultStatistics(CurrentUser))
    /\ db_writes' = [db_writes EXCEPT ![t] = @ + 1]
    /\ pc' = [pc EXCEPT ![t] = "stats_reselect"]
    /\ UNCHANGED <<speech_responses, user_progress, form, tr, ai_feedback,
                   current_stats, existing_progress, response_id, stats_ret,
                   level_ret, resp, accepted, observed, calls>>

\* get_user_statistics, lines 127-130: the second SELECT.
ReselectStatistics(t) ==
    /\ UNCHANGED <<log, file_saved, functions>>
    /\ pc[t] = "stats_reselect"
    /\ current_stats' =
         [current_stats EXCEPT
            ![t] = StatisticsOf(user_statistics, CurrentUser)[1]]
    /\ pc' = [pc EXCEPT ![t] = "stats_update"]
    /\ UNCHANGED <<tables, form, tr, ai_feedback, existing_progress,
                   response_id, stats_ret, level_ret, resp, db_writes,
                   accepted, observed, calls>>

\* update_user_statistics, lines 144-167: the averages are computed from the
\* row read (a missing key raises, the except branch returns False) and the
\* UPDATE writes them.
UpdateUserStatistics(t) ==
    /\ UNCHANGED <<log, file_saved, functions>>
    /\ pc[t] = "stats_update"
    /\ IF StatisticsKeysPresent(ai_feedback[t])
       THEN /\ user_statistics' =
                 UpdateStatisticsRows(user_statistics, CurrentUser,
                                      current_stats[t], ai_feedback[t])
            /\ stats_ret' = [stats_ret EXCEPT ![t] = "true"]
            /\ db_writes' = [db_writes EXCEPT ![t] = @ + 1]
            /\ observed' =
                 [n |-> observed.n + 1,
                  filler |-> observed.filler + ai_feedback[t].filler_count,
                  repetition |->
                      observed.repetition + ai_feedback[t].repetition_score,
                  flow |-> observed.flow + ai_feedback[t].flow_score]
       ELSE /\ stats_ret' = [stats_ret EXCEPT ![t] = "false"]
            /\ UNCHANGED <<user_statistics, db_writes, observed>>
    /\ current_stats' = [current_stats EXCEPT ![t] = NoStatistics]
    /\ pc' = [pc EXCEPT ![t] = "score"]
    /\ UNCHANGED <<speech_responses, user_progress, form, tr, ai_feedback,
                   existing_progress, response_id, level_ret, resp, accepted,
                   calls>>

\* The complete_level call for level l returned: ok is its result.
Returned(l, ok, score) ==
    [calls EXCEPT
       ![l] = [n |-> Min(@.n + 1, 2), ok |-> ok, score |-> score,
               prev |-> @.score]]

\* upload_audio, lines 166-169, and complete_level, lines 72-78: the score
\* decides whether complete_level is called; its first query looks the level
\* up and an unknown level returns False.
CheckLevelCompletion(t) ==
    /\ UNCHANGED <<log, file_saved, functions>>
    /\ pc[t] = "score"
    /\ IF ShouldCompleteLevel(form[t], ai_feedback[t])
       THEN IF LevelIdOf(form[t].level_number) = None
            THEN /\ level_ret' = [level_ret EXCEPT ![t] = "false"]
                 /\ pc' = [pc EXCEPT ![t] = "respond"]
            ELSE /\ pc' = [pc EXCEPT ![t] = "cl_select"]
                 /\ UNCHANGED level_ret
       ELSE /\ pc' = [pc EXCEPT ![t] = "respond"]
            /\ UNCHANGED level_ret
    /\ UNCHANGED <<tables, form, tr, ai_feedback, current_stats,
                   existing_progress, response_id, stats_ret, resp, db_writes,
                   accepted, observed, calls>>

\* complete_level, lines 81-84: is there a progress row of (user, level)?
SelectProgress(t) ==
    /\ UNCHANGED <<log, file_saved, functions>>
    /\ pc[t] = "cl_select"
    /\ existing_progress' =
         [existing_progress EXCEPT
            ![t] = ProgressOf(user_progress, CurrentUser,
                              LevelIdOf(form[t].level_number)) # <<>>]
    /\ pc' = [pc EXCEPT ![t] = "cl_write"]
    /\ UNCHANGED <<tables, form, tr, ai_feedback, current_stats, response_id,
                   stats_ret, level_ret, resp, db_writes, accepted, observed,
                   calls>>

\* complete_level, lines 86-98: the UPDATE or the INSERT.
WriteProgress(t) ==
    /\ UNCHANGED <<log, file_saved, functions>>
    /\ pc[t] = "cl_write"
    /\ user_progress' =
         WriteProgressRows(user_progress, CurrentUser,
                           LevelIdOf(form[t].level_number),
                           CalculateLevelScore(ai_feedback[t]),
                           existing_progress[t])
    /\ db_writes' = [db_writes EXCEPT ![t] = @ + 1]
    /\ pc' = [pc EXCEPT ![t] = "cl_best"]
    /\ UNCHANGED <<speech_responses, user_statistics, form, tr, ai_feedback,
                   current_stats, existing_progress, response_id, stats_ret,
                   level_ret, resp, accepted, observed, calls>>

\* complete_level, lines 101-108: the best level, and True is returned.
UpdateBestLevel(t) ==
    /\ UNCHANGED <<log, file_saved, functions>>
    /\ pc[t] = "cl_best"
    /\ user_statistics' =
         UpdateBestRows(user_statistics, CurrentUser, form[t].level_number)
    /\ db_writes' = [db_writes EXCEPT ![t] = @ + 1]
    /\ level_ret' = [level_ret EXCEPT ![t] = "true"]
    /\ calls' = Returned(form[t].level_number, TRUE,
                         CalculateLevelScore(ai_feedback[t]))
    /\ existing_progress' = [existing_progress EXCEPT ![t] = FALSE]
    /\ pc' = [pc EXCEPT ![t] = "respond"]
    /\ UNCHANGED <<speech_responses, user_progress, form, tr, ai_feedback,
                   current_stats, response_id, stats_ret, resp, accepted,
                   observed>>

\* upload_audio, lines 171-182: the audio file is removed and the success
\* response sent.
Respond(t) ==
    /\ pc[t] = "respond"
    /\ file_saved' = [file_saved EXCEPT ![t] = FALSE]
    /\ UNCHANGED <<log, functions>>
    /\ resp' = [resp EXCEPT
                  ![t] = SuccessResponse(tr[t].transcription, ai_feedback[t],
                                         response_id[t])]
    /\ pc' = [pc EXCEPT ![t] = "done"]
    /\ UNCHANGED <<tables, form, tr, ai_feedback, current_stats,
                   existing_progress, response_id, stats_ret, level_ret,
                   db_writes, accepted, observed, calls>>

\* The statement a thread is about to run, if any, can raise (the connection
\* is lost, a lock wait times out). Nothing of the statement is committed.
AtStatement(t) ==
    \/ pc[t] \in {"save", "stats_select", "stats_insert", "stats_reselect",
                  "cl_select", "cl_write", "cl_best"}
    \/ pc[t] = "stats_update" /\ StatisticsKeysPresent(ai_feedback[t])
    \/ pc[t] = "score" /\ ShouldCompleteLevel(form[t], ai_feedback[t])

\* The exception of a statement after the INSERT of the record propagating
\* to upload_audio's own except branch (lines 184-186) instead of being
\* caught in the manager method.
StatementRaisesUncaught(t) ==
    /\ UNCHANGED <<log, file_saved, functions>>
    /\ AtStatement(t)
    /\ IF pc[t] = "save"
       THEN /\ response_id' = [response_id EXCEPT ![t] = None]
            /\ pc' = [pc EXCEPT ![t] = "stats_select"]
            /\ UNCHANGED <<stats_ret, level_ret, calls, resp>>
       ELSE /\ IF pc[t] \in {"stats_select", "stats_insert", "stats_reselect",
                             "stats_update"}
               THEN /\ stats_ret' = [stats_ret EXCEPT ![t] = "false"]
                    /\ UNCHANGED level_ret
               ELSE /\ level_ret' = [level_ret EXCEPT ![t] = "false"]
                    /\ UNCHANGED stats_ret
            /\ resp' = [resp EXCEPT
                          ![t] = ErrorResponse(500, "Processing failed")]
            /\ pc' = [pc EXCEPT ![t] = "done"]
            /\ UNCHANGED <<response_id, calls>>
    /\ current_stats' = [current_stats EXCEPT ![t] = NoStatistics]
    /\ existing_progress' = [existing_progress EXCEPT ![t] = FALSE]
    /\ UNCHANGED <<tables, form, tr, ai_feedback, db_writes, accepted,
                   observed>>

\* The except branch of the manager method whose statement raised:
\* save_speech_response returns None (lines 66-68), update_user_statistics and
\* get_user_statistics return False and None (auth_manager.py, lines 134-142
\* and 169-171), complete_level returns False (lines 110-112); upload_audio
\* goes on.
StatementRaises(t) ==
    /\ UNCHANGED <<log, file_saved, functions>>
    /\ AtStatement(t)
    /\ IF pc[t] = "save"
       THEN /\ response_id' = [response_id EXCEPT ![t] = None]
            /\ pc' = [pc EXCEPT ![t] = "stats_select"]
            /\ UNCHANGED <<stats_ret, level_ret, calls>>
       ELSE IF pc[t] \in {"stats_select", "stats_insert", "stats_reselect",
                          "stats_update"}
       THEN /\ stats_ret' = [stats_ret EXCEPT ![t] = "false"]
            /\ pc' = [pc EXCEPT ![t] = "score"]
            /\ UNCHANGED <<response_id, level_ret, calls>>
       ELSE /\ level_ret' = [level_ret EXCEPT ![t] = "false"]
            /\ pc' = [pc EXCEPT ![t] = "respond"]
            /\ calls' =
                 IF LevelIdOf(form[t].level_number) = None THEN calls
                 ELSE Returned(form[t].level_number, FALSE,
                               CalculateLevelScore(ai_feedback[t]))
            /\ UNCHANGED <<response_id, stats_ret>>
    /\ current_stats' = [current_stats EXCEPT ![t] = NoStatistics]
    /\ existing_progress' = [existing_progress EXCEPT ![t] = FALSE]
    /\ UNCHANGED <<tables, form, tr, ai_feedback, resp, db_writes, accepted,
                   observed>>

\* --------------------------------------------------------- specifications

\* One step of a thread's upload_audio call.
Step(t) ==
    \/ ReceiveUpload(t)
    \/ SaveSpeechResponse(t)
    \/ SelectStatistics(t)
    \/ InsertStatistics(t)
    \/ ReselectStatistics(t)
    \/ UpdateUserStatistics(t)
    \/ CheckLevelCompletion(t)
    \/ SelectProgress(t)
    \/ WriteProgress(t)
    \/ UpdateBestLevel(t)
    \/ Respond(t)
    \/ StatementRaises(t)

\* Concurrent submissions: each thread serves one request, and the threads
\* interleave between statements.
Next == \E t \in Threads : Step(t)

Spec == Init /\ [][Next]_vars

\* Sequential submissions: one thread serves up to MaxRequests requests, one
\* after the other.
NextSeq == Step("t1") \/ ReceiveNext("t1")

SpecSeq == Init /\ [][NextSeq]_vars

\* calculate_level_score on its own: the analyses scored have the schema's
\* keys, scores among ScoreValues and counts in 0..MaxCount.
ScoreValues == {0, 1, 35, 60, 61, 99, 100}

ScoringInputs ==
    {Analysis("object", SchemaKeys, rep, fil, weak, flow, conf) :
        rep \in ScoreValues, flow \in ScoreValues, conf \in ScoreValues,
        fil \in 0..MaxCount, weak \in 0..MaxCount}

InitScore ==
    /\ Idle
    /\ scoring \in [analysis : ScoringInputs, score : {None}]
    /\ polling = NotPolling
    /\ job = NoJob
    /\ parsing = NoParsing

\* The call returns.
CalculateScore ==
    /\ scoring.analysis # NoAnalysis
    /\ scoring.score = None
    /\ scoring' = [scoring EXCEPT !.score = CalculateLevelScore(scoring.analysis)]
    /\ UNCHANGED <<pipeline, polling, job, parsing>>

NextScore == CalculateScore

SpecScore == InitScore /\ [][NextScore]_vars

\* analyze_speech on its own, the model's response drawn from the fence
\* shapes.
InitFence ==
    /\ Idle
    /\ scoring = NoScoring
    /\ polling = NotPolling
    /\ job = NoJob
    /\ parsing \in [lead : {"none", "bare", "json", "other"}, trail : BOOLEAN,
                     body : {"object", "list", "prose"}, padded : BOOLEAN,
                     lines : BOOLEAN, called : {FALSE}, result : {NoAnalysis}]

\* Lines 44-62: the response is cleaned and parsed, and the call returns.
AnalyzeResponse ==
    /\ ~parsing.called
    /\ parsing.body # "none"
    /\ LET text == ResponseText(parsing.lead, parsing.trail, parsing.lines,
                                parsing.padded, parsing.body)
       IN  parsing' =
             [parsing EXCEPT
                !.called = TRUE,
                !.result = AnalyzeSpeech(JsonLoads(CleanResponse(text)))]
    /\ UNCHANGED <<pipeline, scoring, polling, job>>

NextFence == AnalyzeResponse

SpecFence == InitFence /\ [][NextFence]_vars

\* calculate_level_score on values of any shape: a list, and objects with
\* any of the score keys missing or carrying a string.
ShapeInputs ==
    {ListAnalysis} \union
    {WithNonNumeric(
         Analysis("object", keys \union (SchemaKeys \ ScoreKeys),
                  v.rep, v.fil, v.weak, v.flow, v.conf), strings) :
        keys \in SUBSET ScoreKeys, strings \in SUBSET ScoreKeys,
        v \in [rep : {40, 80}, flow : {80}, conf : {80, 100},
               fil : {0, 4}, weak : {0, 2}]}

InitShape ==
    /\ Idle
    /\ scoring \in [analysis : ShapeInputs, score : {None}]
    /\ polling = NotPolling
    /\ job = NoJob
    /\ parsing = NoParsing

SpecShape == InitShape /\ [][NextScore]_vars

\* _wait_for_completion on its own: the loop of lines 163-191. attempts is
\* the loop's counter, checks the status requests sent so far.
InitPoll ==
    /\ Idle
    /\ scoring = NoScoring
    /\ polling = [NotPolling EXCEPT !.state = "loop"]
    /\ job = NoJob
    /\ parsing = NoParsing

\* The loop going round without counting the attempt.
PollPendingNoCount ==
    /\ polling.state = "loop"
    /\ polling.attempts < MaxAttempts
    /\ \E status \in {"queued", "processing"} :
         polling' = [polling EXCEPT !.checks = @ + 1]
    /\ UNCHANGED <<pipeline, scoring, job, parsing>>

\* Lines 164-191: the job is queued or processing; the attempt is counted
\* and the loop sleeps.
PollPending ==
    /\ polling.state = "loop"
    /\ polling.attempts < MaxAttempts
    /\ \E status \in {"queued", "processing"} :
         polling' = [polling EXCEPT !.checks = @ + 1, !.attempts = @ + 1]
    /\ UNCHANGED <<pipeline, scoring, job, parsing>>

\* Lines 176-184: the job is completed; the stripped text is returned, None
\* when it is empty.
PollCompleted ==
    /\ polling.state = "loop"
    /\ polling.attempts < MaxAttempts
    /\ \E text \in ProviderTexts :
         polling' =
            [polling EXCEPT
               !.state = "returned",
               !.checks = @ + 1,
               !.result = Strip(text),
               !.log = IF Strip(text) = <<>>
                       THEN <<"Transcription completed but text is empty">>
                       ELSE <<>>]
    /\ UNCHANGED <<pipeline, scoring, job, parsing>>

\* Lines 170-172, 185-188 and 196-198: the status check answers non-200, the
\* job reports an error, or the request raises (its timeout is 30 seconds);
\* None is returned.
PollFailed ==
    /\ polling.state = "loop"
    /\ polling.attempts < MaxAttempts
    /\ \E message \in {"Status check failed", "Transcription error",
                        "Transcription completion check error"} :
         polling' = [polling EXCEPT
                       !.state = "returned", !.checks = @ + 1,
                       !.result = NoText, !.log = <<message>>]
    /\ UNCHANGED <<pipeline, scoring, job, parsing>>

\* Lines 163 and 193-194: the loop ends and None is returned.
PollTimeout ==
    /\ polling.state = "loop"
    /\ polling.attempts >= MaxAttempts
    /\ polling' = [polling EXCEPT
                     !.state = "returned", !.result = NoText,
                     !.log = <<"Transcription timeout">>]
    /\ UNCHANGED <<pipeline, scoring, job, parsing>>

NextPoll == PollPending \/ PollCompleted \/ PollFailed \/ PollTimeout

\* The call runs on: every status request returns within its timeout and
\* every sleep ends.
SpecPoll == InitPoll /\ [][NextPoll]_vars /\ WF_vars(NextPoll)

\* transcribe_audio on its own, one step per check and per remote call.
InitJob ==
    /\ Idle
    /\ scoring = NoScoring
    /\ polling = NotPolling
    /\ parsing = NoParsing
    /\ \E file \in Files, ct \in ContentTypes, provider \in Providers :
         job = [NoJob EXCEPT !.file = file, !.content_type = ct,
                             !.provider = provider, !.state = "called"]

JobReturns(transcription, error) ==
    [job EXCEPT !.state = "returned",
                !.result = TranscribeResult(transcription, error)]

\* Lines 19-28: the file is there, is not empty and, for audio/wav, has at
\* least MinWavSize bytes.
JobCheckFile ==
    /\ job.state = "called"
    /\ job' =
         IF ~job.file.exists THEN JobReturns(NoText, "Audio file not found")
         ELSE IF job.file.size = 0
         THEN JobReturns(NoText, "Audio file is empty")
         ELSE IF job.content_type = "audio/wav" /\ job.file.size < MinWavSize
         THEN JobReturns(NoText, "WAV file is too small to contain valid audio")
         ELSE [job EXCEPT !.state = "upload"]
    /\ UNCHANGED <<pipeline, scoring, polling, parsing>>

\* The upload repeated after a non-success answer of the provider.
JobUploadRetrying ==
    /\ job.state = "upload"
    /\ LET sent == UploadAudioLog(job.file, job.content_type, job.provider)
                       \notin HeaderWarningLogs
           url == UploadAudio(job.file, job.content_type, job.provider)
       IN  job' =
             IF url
             THEN [job EXCEPT !.state = "submit", !.audio_url = TRUE,
                              !.uploads = @ + 1]
             ELSE IF sent THEN [job EXCEPT !.uploads = @ + 1]
             ELSE JobReturns(NoText, "Failed to upload audio")
    /\ UNCHANGED <<pipeline, scoring, polling, parsing>>

\* Lines 32-34: _upload_audio; the POST is sent unless the header check
\* returned before it.
JobUpload ==
    /\ job.state = "upload"
    /\ LET sent == UploadAudioLog(job.file, job.content_type, job.provider)
                       \notin HeaderWarningLogs
           url == UploadAudio(job.file, job.content_type, job.provider)
           called == [job EXCEPT !.uploads = IF sent THEN @ + 1 ELSE @]
       IN  job' =
             IF url
             THEN [called EXCEPT !.state = "submit", !.audio_url = TRUE]
             ELSE [called EXCEPT
                     !.state = "returned",
                     !.result = TranscribeResult(NoText,
                                                 "Failed to upload audio")]
    /\ UNCHANGED <<pipeline, scoring, polling, parsing>>

\* Lines 36-38: _request_transcription.
JobSubmit ==
    /\ job.state = "submit"
    /\ job' =
         IF RequestTranscription(job.provider)
         THEN [job EXCEPT !.state = "poll", !.submits = @ + 1,
                          !.transcript_id = TRUE]
         ELSE [job EXCEPT
                 !.state = "returned", !.submits = @ + 1,
                 !.result = TranscribeResult(NoText,
                                             "Failed to start transcription")]
    /\ UNCHANGED <<pipeline, scoring, polling, parsing>>

\* Lines 40-41: _wait_for_completion, and its value is returned.
JobPoll ==
    /\ job.state = "poll"
    /\ job' = [job EXCEPT
                 !.state = "returned", !.polled = TRUE,
                 !.result = TranscribeResult(WaitForCompletion(job.provider),
                                             NoError)]
    /\ UNCHANGED <<pipeline, scoring, polling, parsing>>

NextJob == JobCheckFile \/ JobUpload \/ JobSubmit \/ JobPoll

\* The call is one thread of control: it keeps running until it returns.
SpecJob == InitJob /\ [][NextJob]_vars /\ WF_vars(NextJob)

\* ----------------------------------------------------------------- claims

Busy(t) == pc[t] \notin {"idle", "done"}

\* The inputs for which validation or transcription fails: the file is
\* missing or empty, the WAV header is bad, the upload or the job submit
\* fails, the provider reports an error, a status check fails, polling times
\* out, or the transcript is empty.
FailingInput(file, content_type, provider) ==
    \/ ~file.exists
    \/ file.size = 0
    \/ /\ MimeType(content_type) = "audio/wav"
       /\ file.size >= WavHeaderLen
       /\ ~(file.riff /\ file.wave)
    \/ provider.upload = "fail"
    \/ provider.submit = "fail"
    \/ provider.poll # "completed"
    \/ provider.text \in {TextEmpty, TextBlank}

\* Every failing input ends lines 98-149 in an error response without a
\* transcript (a part of C1).
FailingInputsRejected ==
    \A file \in Files, ct \in ContentTypes, provider \in Providers :
        FailingInput(file, ct, provider) =>
           LET outcome == UploadStage("file", file, ct, provider)
           IN  /\ outcome.tr.transcription = NoText
               /\ outcome.resp.status \in {400, 500}

\* C1: if audio validation or transcription fails for a submission, the
\* upload pipeline returns an error response and the request has run no
\* INSERT or UPDATE statement: every failing input ends in an error response
\* without a transcript, and a request without a transcript is answered with
\* a 4xx/5xx error, is not in any later stage and has written nothing.
C1_FailedTranscriptionWritesNothing ==
    /\ FailingInputsRejected
    /\ \A t \in Threads :
         (pc[t] # "idle" /\ tr[t].transcription = NoText) =>
            /\ pc[t] = "done"
            /\ resp[t].status \in {400, 500}
            /\ ~resp[t].success
            /\ db_writes[t] = 0
            /\ response_id[t] = None

\* C1 witness: a request whose transcription job ended without a text (a
\* provider error, a timeout or an empty transcript) was answered with the
\* 400 error while the other thread's request has written to the tables.
C1_Witness ==
    \E t, u \in Threads :
        /\ pc[t] = "done"
        /\ tr[t] = TranscribeResult(NoText, NoError)
        /\ resp[t].status = 400
        /\ db_writes[u] > 0

\* The current user's statistics row, as get_user_statistics reads it.
Statistics == StatisticsOf(user_statistics, CurrentUser)[1]

Abs(x) == IF x < 0 THEN -x ELSE x

\* A stored average is exactly the mean of n observations of the given sum.
ExactMean(avg, n, sum) == avg * n = sum * FloatScale

\* A stored average is the mean of n observations of the given sum up to the
\* rounding of the n stored values: the k-th store adds at most half a unit
\* to the average, that is k/2 units to average times count.
RoundedMean(avg, n, sum) == 4 * Abs(avg * n - sum * FloatScale) <= n * (n + 1)

\* C2: for any interleaving of two concurrent submissions of the same user
\* that both succeed, the final total_speeches is the count before plus the
\* number of successful update_user_statistics calls, and each average is
\* the mean over all their observations (no lost update).
C2_NoLostUpdate ==
    ((\A t \in Threads : ~Busy(t)) /\ observed.n > 0) =>
        /\ Statistics.total_speeches = observed.n
        /\ RoundedMean(Statistics.avg_filler_count, observed.n, observed.filler)
        /\ RoundedMean(Statistics.avg_repetition_score, observed.n,
                       observed.repetition)
        /\ RoundedMean(Statistics.avg_flow_score, observed.n, observed.flow)

\* C3 as stated: after N sequential successful update_user_statistics calls
\* on a fresh row, total_speeches = N and each stored average times N equals
\* the sum of the N observed values.
C3_ExactRunningAverage ==
    observed.n > 0 =>
        /\ Statistics.total_speeches = observed.n
        /\ ExactMean(Statistics.avg_filler_count, observed.n, observed.filler)
        /\ ExactMean(Statistics.avg_repetition_score, observed.n,
                     observed.repetition)
        /\ ExactMean(Statistics.avg_flow_score, observed.n, observed.flow)

\* C3 amended: after N sequential successful update_user_statistics calls on
\* a fresh row, total_speeches = N and each stored average times N equals the
\* sum of the N observed values up to the rounding of the stored averages.
C3_RoundedRunningAverage ==
    observed.n > 0 =>
        /\ Statistics.total_speeches = observed.n
        /\ RoundedMean(Statistics.avg_filler_count, observed.n, observed.filler)
        /\ RoundedMean(Statistics.avg_repetition_score, observed.n,
                       observed.repetition)
        /\ RoundedMean(Statistics.avg_flow_score, observed.n, observed.flow)

\* C3 witness: three calls were applied and the stored filler average is not
\* exactly the mean (4/3 is stored as the nearest unit).
C3_Witness ==
    /\ observed.n = 3
    /\ observed.filler = 4
    /\ Statistics.total_speeches = 3
    /\ ~ExactMean(Statistics.avg_filler_count, 3, 4)

Users == {CurrentUser, OtherUser}

\* The rows of user_progress of a user and a level number.
LevelProgress(u, l) == ProgressOf(user_progress, u, LevelIdOf(l))

\* The state complete_level is claimed to leave for (CurrentUser, l): one
\* row, completed, with the score of the last call.
OneRowWithLastScore(l) ==
    /\ Len(LevelProgress(CurrentUser, l)) = 1
    /\ LevelProgress(CurrentUser, l)[1].is_completed
    /\ LevelProgress(CurrentUser, l)[1].score = calls[l].score

\* C4: after complete_level was called twice in sequence for an existing
\* level (the later call having run to its return True, no third call being
\* between its write and its return), there is exactly one LevelProgress row
\* of that (user, level), it has is_completed = true and its score is the
\* score of the later call, also when that is lower than the earlier score.
C4_SecondCallOverwrites ==
    \A l \in 1..NumLevels :
        (calls[l].n >= 2 /\ calls[l].ok /\ pc["t1"] # "cl_best") =>
            OneRowWithLastScore(l)

\* C4 witness: level 1 was completed with score 80 and then with score 72,
\* and the one row holds 72.
C4_Witness ==
    /\ calls[1].n = 2 /\ calls[1].ok
    /\ calls[1].prev = 80 /\ calls[1].score = 72
    /\ pc["t1"] = "done"
    /\ OneRowWithLastScore(1)

\* C5: in every reachable state, under every interleaving of concurrent
\* complete_level calls, there is at most one LevelProgress row per
\* (user, level) pair.
C5_AtMostOneRowPerLevel ==
    \A u \in Users, l \in 1..NumLevels : Len(LevelProgress(u, l)) <= 1

\* The user's LevelProgress for level k has is_completed = true.
Completed(u, k) ==
    \E i \in DOMAIN user_progress :
        /\ user_progress[i].user_id = u
        /\ user_progress[i].level_id = LevelIdOf(k)
        /\ user_progress[i].is_completed

\* C6: for every user and every level number k >= 1, is_level_unlocked(user,
\* k + 1), its query answering, is true if and only if the user's
\* LevelProgress for level k has is_completed = true, and
\* is_level_unlocked(user, 1) is true for every user whatever their history.
C6_UnlockedIffPreviousCompleted ==
    \A u \in Users :
        /\ IsLevelUnlocked(user_progress, u, 1, FALSE)
        /\ IsLevelUnlocked(user_progress, u, 1, TRUE)
        /\ \A k \in 1..(NumLevels + 1) :
             IsLevelUnlocked(user_progress, u, k + 1, FALSE) <=> Completed(u, k)

\* C6 witness: the current user has completed level 1 and not level 2, so
\* level 2 is unlocked and level 3 is locked.
C6_Witness ==
    /\ Completed(CurrentUser, 1) /\ ~Completed(CurrentUser, 2)
    /\ IsLevelUnlocked(user_progress, CurrentUser, 2, FALSE)
    /\ ~IsLevelUnlocked(user_progress, CurrentUser, 3, FALSE)

\* The request of thread t went past the transcription and is past the
\* point where complete_level is or is not called.
PastLevelCheck(t) ==
    pc[t] \in {"cl_select", "cl_write", "cl_best", "respond", "done"}
        /\ form[t] # NoForm

\* complete_level was invoked in the run of thread t.
Invoked(t) ==
    pc[t] \in {"cl_select", "cl_write", "cl_best"} \/ level_ret[t] # "not_called"

C8_NoUpdateWithoutRecord ==
    [][\A t \in Threads :
          (pc[t] \in {"stats_update", "cl_write"} /\ pc'[t] # pc[t]
             /\ response_id[t] = None) =>
                /\ user_statistics' = user_statistics
                /\ user_progress' = user_progress]_vars

\* update_user_statistics or complete_level returned False in the run of t.
BookkeepingFailed(t) == stats_ret[t] = "false" \/ level_ret[t] = "false"

\* C9: if the statistics update or the level-completion update fails after
\* the SubmissionRecord was written, the record remains in the history and
\* the response still contains the transcription and the analysis.
C9_RecordKeptAndFeedbackReturned ==
    \A t \in Threads :
        (response_id[t] # None /\ BookkeepingFailed(t)) =>
            /\ response_id[t] \in DOMAIN speech_responses
            /\ speech_responses[response_id[t]] =
                 [user_id |-> CurrentUser,
                  transcription |-> tr[t].transcription,
                  ai_feedback |-> ai_feedback[t]]
            /\ pc[t] = "done" =>
                 /\ resp[t].status = 200 /\ resp[t].success
                 /\ resp[t].transcription = tr[t].transcription
                 /\ resp[t].transcription # NoText
                 /\ resp[t].analysis = ai_feedback[t]

\* C9 witness: a run whose record was written and whose statistics update
\* raised on an analysis without filler_count has responded.
C9_Witness ==
    \E t \in Threads :
        /\ pc[t] = "done"
        /\ response_id[t] # None
        /\ stats_ret[t] = "false"
        /\ ai_feedback[t] = PartialAnalysis
        /\ resp[t].success

\* C10: when the statistics update or the level-completion update fails
\* after a successful transcription and analysis, the response reports a
\* partial success: it differs from the response of a run with the same
\* transcription, analysis and record in which all bookkeeping was applied.
C10_PartialSuccessReported ==
    \A t \in Threads :
        (pc[t] = "done" /\ resp[t].success /\ BookkeepingFailed(t)) =>
            resp[t] # SuccessResponse(tr[t].transcription, ai_feedback[t],
                                      response_id[t])

\* C11: on every exit path of upload_audio after the audio file was saved to
\* disk, the file has been deleted by the time the response is returned.
C11_FileDeletedOnEveryExit ==
    \A t \in Threads : pc[t] = "done" => ~file_saved[t]

\* The AnalysisResult schema: an object with the five numeric fields, the
\* summary, detailed_feedback, strengths and improvement_areas.
ConformsToSchema(a) ==
    /\ a.shape = "object"
    /\ {"repetition_score", "filler_count", "weak_words_count", "flow_score",
        "confidence_score", "summary", "detailed_feedback", "strengths",
        "improvement_areas"} \subseteq a.keys

\* analyze_speech was called in the run of thread t and has returned.
Analysed(t) == ai_feedback[t] # NoAnalysis

\* C12: analyze_speech never raises and returns, for every model response, a
\* result that conforms to the AnalysisResult schema.
C12_AnalysisConformsToSchema ==
    \A t \in Threads : Analysed(t) => ConformsToSchema(ai_feedback[t])

\* The AI provider call threw in the run of thread t.
ProviderThrew(t) == log[t] # <<>> /\ log[t][Len(log[t])] = "AI analysis error"

\* C13: if the AI provider call throws during a submission whose
\* transcription succeeded, analyze_speech returns the fixed fallback
\* (repetition 75, flow 70, confidence 70, counts 0) and the pipeline goes on:
\* the SubmissionRecord it writes carries that fallback, update_user_statistics
\* is called and what it applies are the fallback's values, and the response
\* is the success response.
C13_FallbackRecorded ==
    /\ [](\A t \in Threads :
            ProviderThrew(t) =>
                /\ tr[t].transcription # NoText
                /\ ai_feedback[t].repetition_score = 75
                /\ ai_feedback[t].flow_score = 70
                /\ ai_feedback[t].confidence_score = 70
                /\ ai_feedback[t].filler_count = 0
                /\ ai_feedback[t].weak_words_count = 0
                /\ ConformsToSchema(ai_feedback[t])
                /\ response_id[t] # None =>
                     speech_responses[response_id[t]].ai_feedback
                         = ai_feedback[t]
                /\ pc[t] = "done" =>
                     /\ resp[t].success
                     /\ stats_ret[t] # "not_called")
    /\ [][\A t \in Threads :
            (ProviderThrew(t) /\ pc[t] = "stats_update"
               /\ stats_ret'[t] = "true") =>
                  observed' = [n |-> observed.n + 1,
                               filler |-> observed.filler,
                               repetition |-> observed.repetition + 75,
                               flow |-> observed.flow + 70]]_vars

\* C13 witness: a run in which the provider threw has written its record
\* with the fallback, updated the statistics and responded.
C13_Witness ==
    \E t \in Threads :
        /\ ProviderThrew(t) /\ pc[t] = "done"
        /\ response_id[t] # None
        /\ speech_responses[response_id[t]].ai_feedback = FallbackAnalysis
        /\ stats_ret[t] = "true"

\* The transcription job of thread t's request completed with an empty or
\* whitespace-only text.
CompletedBlank(t) ==
    log[t] = <<"Transcription completed but text is empty">>

\* C14: when the transcription job reports completed with an empty or
\* whitespace-only text, the request fails; analyze_speech is never invoked
\* with an empty or whitespace-only transcript and no SubmissionRecord has
\* one.
C14_BlankTranscriptRejected ==
    /\ \A t \in Threads :
         /\ CompletedBlank(t) =>
              /\ pc[t] = "done" /\ ~resp[t].success /\ resp[t].status >= 400
              /\ ~Analysed(t)
              /\ response_id[t] = None /\ db_writes[t] = 0
         /\ Analysed(t) => Strip(tr[t].transcription) # <<>>
    /\ \A i \in DOMAIN speech_responses :
         Strip(speech_responses[i].transcription) # <<>>

\* C14 witness: a request whose job completed with a blank text was
\* rejected while another request has written its record.
C14_Witness ==
    \E t \in Threads :
        /\ CompletedBlank(t) /\ pc[t] = "done" /\ resp[t].status = 400
        /\ speech_responses # <<>>

\* The messages the transcription manager logs on a provider failure.
ProviderFailures ==
    {"Upload failed", "Transcription request failed", "Transcription error",
     "Status check failed", "Transcription timeout"}

\* C15: every transcription-provider failure (upload, job submit, provider
\* error status, status check, polling timeout) is answered with a 5xx
\* response, never with a 4xx.
C15_ProviderFailureIs5xx ==
    \A t \in Threads :
        (pc[t] = "done" /\ log[t] # <<>> /\ log[t][1] \in ProviderFailures) =>
            resp[t].status \in 500..599

\* The messages the transcription manager logs on a corrupt WAV header.
HeaderWarnings ==
    {"File doesn't have proper WAV RIFF header",
     "File doesn't have proper WAV format identifier"}

\* The request of thread t has an input error: no audio part, no file
\* selected, a zero-length file, or a WAV file with a corrupt header.
InputError(t) ==
    \/ resp[t].error \in {"No audio file provided", "No file selected"}
    \/ file_saved[t] /\ resp[t].error = "Failed to save audio file"
    \/ log[t] # <<>> /\ log[t][1] \in HeaderWarnings

\* C16: every input error is answered with a 4xx response, never with a 5xx.
C16_InputErrorIs4xx ==
    \A t \in Threads :
        (pc[t] = "done" /\ InputError(t)) => resp[t].status \in 400..499

\* C19: a stream treated as WAV that fails a marker check is rejected with a
\* corrupt-header error that is distinguishable from a provider upload
\* failure: the response to a request with a corrupt header differs from the
\* response to a request whose upload the provider refused.
C19_CorruptHeaderDistinguishable ==
    \A t, u \in Threads :
        (/\ pc[t] = "done" /\ log[t] # <<>> /\ log[t][1] \in HeaderWarnings
         /\ pc[u] = "done" /\ log[u] = <<"Upload failed">>) =>
            resp[t] # resp[u]

\* The calculate_level_score call has returned.
Scored == scoring.score # None

\* Three times (repetition + flow + confidence)/3 - min(2*fillerCount, 20)
\* - min(3*weakWordCount, 15), the value the claimed formula rounds.
ClaimedThirds(a) ==
    a.repetition_score + a.flow_score + a.confidence_score
        - 3 * (IF 2 * a.filler_count < 20 THEN 2 * a.filler_count ELSE 20)
        - 3 * (IF 3 * a.weak_words_count < 15 THEN 3 * a.weak_words_count
               ELSE 15)

\* r = max(0, round(x3 / 3)): below one half the result is 0, otherwise r is
\* the integer within one third of x3 / 3.
IsMaxZeroRound(r, x3) ==
    IF x3 < 2 THEN r = 0 ELSE 3 * r - 1 <= x3 /\ x3 <= 3 * r + 1

\* C17: for every analysis whose scores are in 0..100 and whose counts are
\* non-negative integers, calculate_level_score returns an integer in 0..100
\* equal to max(0, round((repetition + flow + confidence)/3
\* - min(2*fillerCount, 20) - min(3*weakWordCount, 15))).
C17_ScoreFormula ==
    Scored =>
        /\ scoring.score \in 0..100
        /\ IsMaxZeroRound(scoring.score, ClaimedThirds(scoring.analysis))

\* C17 witness: (60 + 61 + 100)/3 - 8 = 65.67 was scored 66.
C17_Witness ==
    /\ Scored
    /\ scoring.analysis.repetition_score = 60
    /\ scoring.analysis.flow_score = 61
    /\ scoring.analysis.confidence_score = 100
    /\ scoring.analysis.filler_count = 4
    /\ scoring.analysis.weak_words_count = 0
    /\ scoring.score = 66

\* C18: calculate_level_score is non-increasing in fillerCount and in
\* weakWordCount, the other fields fixed, and the penalties saturate: a
\* fillerCount >= 10 scores as fillerCount = 10, a weakWordCount >= 5 as
\* weakWordCount = 5.
C18_MonotoneAndSaturating ==
    Scored =>
        LET a == scoring.analysis
        IN  /\ \A more \in a.filler_count..(MaxCount + 1) :
                 CalculateLevelScore([a EXCEPT !.filler_count = more])
                     <= scoring.score
            /\ \A more \in a.weak_words_count..(MaxCount + 1) :
                 CalculateLevelScore([a EXCEPT !.weak_words_count = more])
                     <= scoring.score
            /\ a.filler_count >= 10 =>
                 scoring.score
                     = CalculateLevelScore([a EXCEPT !.filler_count = 10])
            /\ a.weak_words_count >= 5 =>
                 scoring.score
                     = CalculateLevelScore([a EXCEPT !.weak_words_count = 5])

\* C18 witness: twelve fillers and six weak words on scores of 100 were
\* scored 65, both penalties at their caps.
C18_Witness ==
    /\ Scored
    /\ scoring.analysis.repetition_score = 100
    /\ scoring.analysis.flow_score = 100
    /\ scoring.analysis.confidence_score = 100
    /\ scoring.analysis.filler_count = 12
    /\ scoring.analysis.weak_words_count = 6
    /\ scoring.score = 65

\* C20: every call of _wait_for_completion terminates after at most 60
\* status checks; when the provider answered queued or processing 60 times
\* the loop has stopped after the 60th check and the outcome is the timeout
\* failure, no transcript.
C20_PollingTerminates ==
    /\ [](polling.checks <= 60)
    /\ []((polling.state = "returned" /\ polling.attempts = 60) =>
            /\ polling.checks = 60
            /\ polling.result = NoText
            /\ polling.log = <<"Transcription timeout">>)
    /\ <>(polling.state = "returned")

\* C20 witness: a call returned the timeout failure after 60 checks.
C20_Witness ==
    /\ polling.state = "returned"
    /\ polling.attempts = 60 /\ polling.checks = 60
    /\ polling.result = NoText
    /\ polling.log = <<"Transcription timeout">>

\* C24: the levels a user has completed are a prefix of the level ladder:
\* whenever level k > 1 is completed for a user, level k - 1 is completed
\* for that user.
C24_CompletedLevelsArePrefix ==
    \A u \in Users, k \in 2..NumLevels :
        Completed(u, k) => Completed(u, k - 1)

\* C25: every return of transcribe_audio is (non-empty transcript, no error)
\* or (no transcript, non-empty error message), never no transcript together
\* with no error.
C25_TranscriptOrError ==
    \A t \in Threads :
        (pc[t] # "idle" /\ tr[t] # NotTranscribed) =>
            \/ tr[t].transcription # NoText /\ tr[t].error = NoError
            \/ /\ tr[t].transcription = NoText
               /\ tr[t].error \notin {NoError, ""}

\* C26: every success response carries a response_id that identifies a
\* SubmissionRecord of the user's history; none has a null response_id.
C26_SuccessHasRecord ==
    \A t \in Threads :
        (pc[t] = "done" /\ resp[t].success) =>
            /\ resp[t].response_id # None
            /\ resp[t].response_id \in DOMAIN speech_responses
            /\ speech_responses[resp[t].response_id].user_id = CurrentUser

\* C27: level completion is permanent: a LevelProgress row with
\* is_completed = true stays such a row of the same user and level in every
\* later state, and a level that is unlocked for a user stays unlocked.
C27_CompletionIsPermanent ==
    [][/\ \A i \in DOMAIN user_progress :
             user_progress[i].is_completed =>
                 /\ i \in DOMAIN user_progress'
                 /\ user_progress'[i].is_completed
                 /\ user_progress'[i].user_id = user_progress[i].user_id
                 /\ user_progress'[i].level_id = user_progress[i].level_id
       /\ \A u \in Users, k \in 1..(NumLevels + 1) :
             IsLevelUnlocked(user_progress, u, k, FALSE) =>
                 IsLevelUnlocked(user_progress', u, k, FALSE)]_vars

\* C27 witness: level 1 was completed with 80, a later submission completed
\* it again with 72 and a quick task followed; level 2 is unlocked.
C27_Witness ==
    /\ calls[1].n = 2 /\ calls[1].prev = 80 /\ calls[1].score = 72
    /\ form["t1"].is_quick_task /\ pc["t1"] = "done"
    /\ Completed(CurrentUser, 1)
    /\ IsLevelUnlocked(user_progress, CurrentUser, 2, FALSE)

\* The highest level number the user has completed, 0 if none.
HighestCompleted(u) ==
    IF \E k \in 1..NumLevels : Completed(u, k)
    THEN CHOOSE k \in 1..NumLevels :
             /\ Completed(u, k)
             /\ \A j \in (k + 1)..NumLevels : ~Completed(u, j)
    ELSE 0

\* C28: in every state in which no complete_level call is in progress, a
\* user's best_level_completed equals the highest level number the user has
\* completed (0 if none), also when the Statistics row did not exist or the
\* statistics write failed during the completion.
C28_BestLevelIsHighestCompleted ==
    (\A t \in Threads : pc[t] \notin {"cl_select", "cl_write", "cl_best"}) =>
        \A u \in Users :
            LET rows == StatisticsOf(user_statistics, u)
            IN  /\ rows = <<>> => HighestCompleted(u) = 0
                /\ \A i \in DOMAIN rows :
                     rows[i].best_level_completed = HighestCompleted(u)

\* How far a transcribe_audio call has come.
JobRank(state) ==
    CASE state = "called" -> 0
      [] state = "upload" -> 1
      [] state = "submit" -> 2
      [] state = "poll" -> 3
      [] state = "returned" -> 4
      [] OTHER -> 0

\* C21: within one transcribe_audio call the job moves only forward through
\* uploading, submitted and polling to a terminal outcome: the job-submit
\* call is made only after the upload returned an upload URL, polling starts
\* only after job-submit returned a job id, and the upload call and the
\* job-submit call are each made at most once.
C21_JobMovesForward ==
    /\ [](/\ job.uploads <= 1 /\ job.submits <= 1
          /\ (job.state = "submit" \/ job.submits = 1) =>
                job.uploads = 1 /\ job.audio_url
          /\ (job.state = "poll" \/ job.polled) =>
                job.submits = 1 /\ job.transcript_id)
    /\ [][/\ JobRank(job'.state) > JobRank(job.state)
          /\ job'.uploads >= job.uploads
          /\ job'.submits >= job.submits]_job
    /\ <>(job.state = "returned")

\* C21 witness: a call whose upload succeeded at the first attempt and whose
\* job submit was refused has returned without polling.
C21_Witness ==
    /\ job.state = "returned"
    /\ job.uploads = 1 /\ job.submits = 1
    /\ ~job.polled
    /\ job.result = TranscribeResult(NoText, "Failed to start transcription")

\* A calculate_level_score call has returned.
ScoreReturned == scoring.analysis # NoAnalysis /\ scoring.score # None

\* The input is an object and every score key it carries has a number.
NumericMapping(a) ==
    a.shape = "object" /\ a.non_numeric \cap a.keys \cap ScoreKeys = {}

\* The input is a valid AnalysisResult: an object with a number for each of
\* the five score keys.
ValidShape(a) == NumericMapping(a) /\ ScoreKeys \subseteq a.keys

\* The object with 0 written for each score key it lacks.
ZeroFilled(a) ==
    [k \in DOMAIN a |->
        IF k = "keys" THEN a.keys \union ScoreKeys
        ELSE IF k \in ScoreKeys \ a.keys THEN 0
        ELSE a[k]]

\* The formula of the specification on a valid AnalysisResult.
FormulaScore(a) ==
    LET n3 == a.repetition_score + a.flow_score + a.confidence_score
                - 3 * (Min(a.filler_count * 2, FillerPenaltyCap)
                       + Min(a.weak_words_count * 3, WeakWordsPenaltyCap))
    IN  IF n3 <= 0 THEN 0 ELSE RoundDiv(n3, 3)

\* C22 as stated: for any input whose shape is not a valid AnalysisResult
\* (not a mapping, missing score or count fields, non-numeric field values)
\* calculate_level_score returns the default score 50.
C22_DefaultOnInvalidShape ==
    ScoreReturned /\ ~ValidShape(scoring.analysis)
        => scoring.score = DefaultScore

\* C22 as the code has it: calculate_level_score always returns a score; it
\* is the default 50 when the input is not a mapping or a field it carries is
\* not a number, and otherwise the formula with 0 for each missing field.
C22_DefaultOnRaisingShape ==
    ScoreReturned =>
        /\ scoring.score \in 0..100
        /\ ~NumericMapping(scoring.analysis) => scoring.score = DefaultScore
        /\ NumericMapping(scoring.analysis) =>
              scoring.score = FormulaScore(ZeroFilled(scoring.analysis))

\* C22 witness: an object with every key whose filler_count is a string has
\* been scored 50.
C22_Witness ==
    /\ ScoreReturned
    /\ scoring.analysis.shape = "object"
    /\ ScoreKeys \subseteq scoring.analysis.keys
    /\ scoring.analysis.non_numeric = {"filler_count"}
    /\ scoring.score = DefaultScore

\* C23: if the model's response is a valid JSON object wrapped in a code
\* fence, analyze_speech returns that parsed object and not the fallback, for
\* every fence shape: leading and trailing fence, leading fence only, with the
\* json language tag, with another language tag, or with no language tag.
C23_FencedObjectIsParsed ==
    parsing.called /\ parsing.lead # "none" /\ parsing.body = "object"
        => parsing.result = HesitantAnalysis

====
